---- MODULE Spec2Model ----
(***************************************************************************)
(* Model of the input-dispatch pipeline of the egui_term terminal widget   *)
(* (src/src/view.rs).  One frame of the widget is TerminalView::ui: it     *)
(* loads the persisted TerminalViewState, walks the frame's events in      *)
(* arrival order (process_input), renders (show) and stores the state.     *)
(* The model steps through a frame one event at a time: BeginFrame, then   *)
(* one action per event of the frame, then EndFrame.                       *)
(*                                                                         *)
(* Pixel quantities (f32 in the source) are fixed-point numbers with       *)
(* denominator Denom: the integer n stands for n / Denom.                  *)
(***************************************************************************)
EXTENDS Integers, Sequences, FiniteSets, TLC

VARIABLES
    state,            \* TerminalViewState of the widget (persisted when pc = "idle")
    content,          \* backend.last_content(): terminal_mode, display_offset
    backend_search,   \* last value handed to backend.search_set_active
    pc,               \* "idle" between frames, "input" inside process_input
    has_focus,        \* TerminalView.has_focus of the running frame
    modifiers,        \* layout.ctx.input(|i| i.modifiers) of the running frame
    layout,           \* Response of the running frame
    last_event,       \* the event handled by the last step, with its inputs
    input_actions,    \* the InputActions that event produced (all were applied)
    total_delta,      \* history: sum of delta.y over the Point wheel events handled
    total_scroll,     \* history: sum of n over the Scroll(n) commands issued
    plain_points,     \* history: every wheel event handled so far was a Point
                      \* event in a mode that scrolls the scrollback
    backend_calls,    \* the calls other than process_command that the last step
                      \* made on the backend, with the backend's answers
    events,           \* i.events of the running frame, when fixed in advance
    cursor,           \* how many of them the event loop has handled
    screen,           \* what the content snapshot holds for show: the cells in
                      \* display_iter order, cursor, selection, link, search
    painter           \* the batches show handed to painter.extend in this frame

vars == <<state, content, backend_search, pc, has_focus, modifiers, layout,
          last_event, input_actions, total_delta, total_scroll, plain_points,
          backend_calls, events, cursor, screen, painter>>

----------------------------------------------------------------------------
(* Bounds of the model *)

Denom == 2            \* fixed-point denominator of pixel quantities
FontSize == 4         \* font_type().size, in fixed-point units
MaxDelta == 6         \* largest |delta.y| of a wheel event, fixed-point
MaxTotal == 2 * FontSize   \* cap on |total_delta|
MaxPix == 3           \* pointer offsets inside the widget are 0 or MaxPix
MaxOrigin == 1        \* layout.rect.min is (0,0) .. (MaxOrigin,MaxOrigin)
CellWidth == 2        \* terminal_size.cell_width
CellHeight == 2       \* terminal_size.cell_height
MaxOffset == 1        \* grid.display_offset() is 0..MaxOffset
MaxPaste == 3         \* longest pasted text, in bytes
MaxEvents == 3        \* longest event list of a frame fixed in advance
MaxCells == 2         \* most cells of a drawn grid

----------------------------------------------------------------------------
(* Terminal modes, modifiers, bytes *)

MOUSE_MODE == {"MOUSE_REPORT_CLICK", "MOUSE_DRAG", "MOUSE_MOTION"}

ModeFlags == MOUSE_MODE \cup {"ALT_SCREEN", "ALTERNATE_SCROLL", "BRACKETED_PASTE"}

\* TermMode::intersects / TermMode::contains
intersects(mode, flags) == mode \cap flags # {}
contains(mode, flags) == flags \subseteq mode

ModifierNames == {"alt", "ctrl", "shift", "command"}
NONE == {}
\* Modifiers::is_none / Modifiers::command_only
is_none(m) == m = {}
command_only(m) == "alt" \notin m /\ "shift" \notin m /\ "command" \in m

ESC == 27
ETX == 3

Abs(x) == IF x < 0 THEN -x ELSE x
\* f32::signum: 1.0 for +0.0 and positive numbers, -1.0 for negative ones
signum(x) == IF x < 0 THEN -1 ELSE 1
\* f32::ceil of a non-negative fixed-point number, as a whole number
ceil(x) == (x + Denom - 1) \div Denom
\* f32::trunc of the quotient a / b (b > 0), as a whole number
trunc_div(a, b) == IF a < 0 THEN -((-a) \div b) ELSE a \div b
\* the f32 % operator: remainder with the sign of the dividend
rem(a, b) == a - b * trunc_div(a, b)

----------------------------------------------------------------------------
(* InputAction and BackendCommand values *)

BackendCall(cmd) == [type |-> "BackendCall", cmd |-> cmd]
WriteToClipboard(data) == [type |-> "WriteToClipboard", data |-> data]
Ignore == [type |-> "Ignore"]
ToggleSearch == [type |-> "ToggleSearch"]
SearchNext == [type |-> "SearchNext"]
SearchPrev == [type |-> "SearchPrev"]

Write(bytes) == [name |-> "Write", bytes |-> bytes]
Scroll(lines) == [name |-> "Scroll", lines |-> lines]
MouseReport(button, mods, point, pressed) ==
    [name |-> "MouseReport", button |-> button, modifiers |-> mods,
     point |-> point, pressed |-> pressed]
SelectStart(kind, x, y) == [name |-> "SelectStart", kind |-> kind, x |-> x, y |-> y]
SelectUpdate(x, y) == [name |-> "SelectUpdate", x |-> x, y |-> y]
ProcessLink(action, point) == [name |-> "ProcessLink", action |-> action, point |-> point]

\* the commands handed to backend.process_command by the last event
Issued == { input_actions[i].cmd : i \in { j \in DOMAIN input_actions :
                                           input_actions[j].type = "BackendCall" } }
IssuedNames == { c.name : c \in Issued }

----------------------------------------------------------------------------
(* Scroll translation *)

\* wheel_lines with the accumulator cleared after each Point event
wheel_lines_reset(scroll_pixels, font_size, unit, delta_y) ==
    CASE unit = "Line" ->
           [lines |-> signum(delta_y) * ceil(Abs(delta_y)),
            scroll_pixels |-> scroll_pixels]
      [] unit = "Point" ->
           [lines |-> trunc_div(scroll_pixels - delta_y, font_size),
            scroll_pixels |-> 0]
      [] OTHER ->
           [lines |-> 0, scroll_pixels |-> scroll_pixels]

\* wheel_lines without the %= of the accumulator
wheel_lines_keep(scroll_pixels, font_size, unit, delta_y) ==
    CASE unit = "Line" ->
           [lines |-> signum(delta_y) * ceil(Abs(delta_y)),
            scroll_pixels |-> scroll_pixels]
      [] unit = "Point" ->
           [lines |-> trunc_div(scroll_pixels - delta_y, font_size),
            scroll_pixels |-> scroll_pixels - delta_y]
      [] OTHER ->
           [lines |-> 0, scroll_pixels |-> scroll_pixels]

\* the line count of a wheel event and the accumulator it leaves
\* wheel_lines whose Point arm adds delta.y to the accumulator
wheel_lines_add(scroll_pixels, font_size, unit, delta_y) ==
    CASE unit = "Line" ->
           [lines |-> signum(delta_y) * ceil(Abs(delta_y)),
            scroll_pixels |-> scroll_pixels]
      [] unit = "Point" ->
           [lines |-> trunc_div(scroll_pixels + delta_y, font_size),
            scroll_pixels |-> rem(scroll_pixels + delta_y, font_size)]
      [] OTHER ->
           [lines |-> 0, scroll_pixels |-> scroll_pixels]

wheel_lines(scroll_pixels, font_size, unit, delta_y) ==
    CASE unit = "Line" ->
           [lines |-> signum(delta_y) * ceil(Abs(delta_y)),
            scroll_pixels |-> scroll_pixels]
      [] unit = "Point" ->
           [lines |-> trunc_div(scroll_pixels - delta_y, font_size),
            scroll_pixels |-> rem(scroll_pixels - delta_y, font_size)]
      [] OTHER ->
           [lines |-> 0, scroll_pixels |-> scroll_pixels]

RECURSIVE repeat(_, _)
repeat(bytes, n) == IF n = 0 THEN <<>> ELSE bytes \o repeat(bytes, n - 1)

\* wheel_dispatch with the alternate-scroll branch tested first
wheel_dispatch_alt_first(lines, terminal_mode, point) ==
    IF lines = 0 THEN Ignore
    ELSE IF contains(terminal_mode, {"ALT_SCREEN", "ALTERNATE_SCROLL"})
    THEN BackendCall(Write(repeat(<<ESC, 79, IF lines > 0 THEN 66 ELSE 65>>,
                                  Abs(lines))))
    ELSE IF intersects(terminal_mode, MOUSE_MODE)
    THEN BackendCall(MouseReport(IF lines > 0 THEN "ScrollDown" ELSE "ScrollUp",
                                 NONE, point, TRUE))
    ELSE BackendCall(Scroll(lines))

\* wheel_dispatch that sends arrow keys when either alternate flag is set
wheel_dispatch_either_flag(lines, terminal_mode, point) ==
    IF lines = 0 THEN Ignore
    ELSE IF intersects(terminal_mode, MOUSE_MODE)
    THEN BackendCall(MouseReport(IF lines > 0 THEN "ScrollDown" ELSE "ScrollUp",
                                 NONE, point, TRUE))
    ELSE IF intersects(terminal_mode, {"ALT_SCREEN", "ALTERNATE_SCROLL"})
    THEN BackendCall(Write(repeat(<<ESC, 79, IF lines > 0 THEN 66 ELSE 65>>,
                                  Abs(lines))))
    ELSE BackendCall(Scroll(lines))

wheel_dispatch(lines, terminal_mode, point) ==
    IF lines = 0 THEN Ignore
    ELSE IF intersects(terminal_mode, MOUSE_MODE)
    THEN BackendCall(MouseReport(IF lines > 0 THEN "ScrollDown" ELSE "ScrollUp",
                                 NONE, point, TRUE))
    ELSE IF contains(terminal_mode, {"ALT_SCREEN", "ALTERNATE_SCROLL"})
    THEN BackendCall(Write(repeat(<<ESC, 79, IF lines > 0 THEN 66 ELSE 65>>,
                                  Abs(lines))))
    ELSE BackendCall(Scroll(lines))

process_mouse_wheel(st, font_size, unit, delta_y, terminal_mode) ==
    LET w == wheel_lines(st.scroll_pixels, font_size, unit, delta_y)
        st1 == [st EXCEPT !.scroll_pixels = w.scroll_pixels]
    IN  [state |-> st1,
         action |-> wheel_dispatch(w.lines, terminal_mode,
                                   st1.current_mouse_position_on_grid)]

----------------------------------------------------------------------------
(* Grid-coordinate mapping and bindings (backend and bindings modules) *)

\* TerminalBackend::selection_point
selection_point(x, y, display_offset) ==
    [line |-> (y \div CellHeight) + display_offset, column |-> x \div CellWidth]

MousePrimary == [kind |-> "Mouse", code |-> "Primary"]
KeyCode(key) == [kind |-> "KeyCode", code |-> key]

\* the binding table of the widget: ordered, first match wins
bindings_layout ==
    << [input |-> MousePrimary, modifiers |-> {"command"}, mode |-> {},
        action |-> [type |-> "LinkOpen"]],
       [input |-> KeyCode("Enter"), modifiers |-> {}, mode |-> {},
        action |-> [type |-> "Char", c |-> 13]],
       [input |-> KeyCode("A"), modifiers |-> {"command"}, mode |-> {},
        action |-> [type |-> "Char", c |-> 1]],
       [input |-> KeyCode("F"), modifiers |-> {"command"}, mode |-> {},
        action |-> [type |-> "Char", c |-> 6]],
       [input |-> KeyCode("ArrowUp"), modifiers |-> {}, mode |-> {"ALT_SCREEN"},
        action |-> [type |-> "Esc", seq |-> <<ESC, 79, 65>>]],
       [input |-> KeyCode("ArrowUp"), modifiers |-> {}, mode |-> {},
        action |-> [type |-> "Esc", seq |-> <<ESC, 91, 65>>]] >>

\* BindingsLayout::get_action
get_action(table, input, mods, terminal_mode) ==
    LET hits == { i \in DOMAIN table :
                    /\ table[i].input = input
                    /\ table[i].modifiers = mods
                    /\ table[i].mode \subseteq terminal_mode }
    IN  IF hits = {} THEN [type |-> "Ignore"]
        ELSE table[CHOOSE i \in hits : \A j \in hits : i <= j].action

----------------------------------------------------------------------------
(* Selection controller: pointer buttons and pointer moves *)

\* build_start_select_command with window coordinates, not widget-relative ones
build_start_select_command_absolute(lay, cursor_position) ==
    LET selection_type == IF lay.double_clicked THEN "Semantic"
                          ELSE IF lay.triple_clicked THEN "Lines"
                          ELSE "Simple"
    IN  SelectStart(selection_type, cursor_position.x, cursor_position.y)

build_start_select_command(lay, cursor_position) ==
    LET selection_type == IF lay.double_clicked THEN "Semantic"
                          ELSE IF lay.triple_clicked THEN "Lines"
                          ELSE "Simple"
    IN  SelectStart(selection_type,
                    cursor_position.x - lay.rect_min.x,
                    cursor_position.y - lay.rect_min.y)

process_left_button_pressed(st, lay, position) ==
    [state |-> [st EXCEPT !.is_dragged = TRUE],
     action |-> BackendCall(build_start_select_command(lay, position))]

\* process_left_button_released that looks up the link binding first
process_left_button_released_link_first(st, lay, terminal_mode, position, mods) ==
    [state |-> [st EXCEPT !.is_dragged = FALSE],
     action |->
        IF get_action(bindings_layout, MousePrimary, mods, terminal_mode).type
             = "LinkOpen"
        THEN BackendCall(ProcessLink("Open", st.current_mouse_position_on_grid))
        ELSE IF lay.double_clicked \/ lay.triple_clicked
        THEN BackendCall(build_start_select_command(lay, position))
        ELSE Ignore]

process_left_button_released(st, lay, terminal_mode, position, mods) ==
    [state |-> [st EXCEPT !.is_dragged = FALSE],
     action |->
        IF lay.double_clicked \/ lay.triple_clicked
        THEN BackendCall(build_start_select_command(lay, position))
        ELSE IF get_action(bindings_layout, MousePrimary, mods, terminal_mode).type
                  = "LinkOpen"
        THEN BackendCall(ProcessLink("Open", st.current_mouse_position_on_grid))
        ELSE Ignore]

\* process_left_button where a release that ends a drag skips the mode test
process_left_button_drag_first(st, lay, terminal_mode, position, mods, pressed) ==
    IF st.is_dragged /\ ~pressed
    THEN process_left_button_released(st, lay, terminal_mode, position, mods)
    ELSE IF intersects(terminal_mode, MOUSE_MODE)
    THEN [state |-> st,
          action |-> BackendCall(MouseReport("LeftButton", mods,
                                   st.current_mouse_position_on_grid, pressed))]
    ELSE IF pressed
    THEN process_left_button_pressed(st, lay, position)
    ELSE process_left_button_released(st, lay, terminal_mode, position, mods)

process_left_button(st, lay, terminal_mode, position, mods, pressed) ==
    IF intersects(terminal_mode, MOUSE_MODE)
    THEN [state |-> st,
          action |-> BackendCall(MouseReport("LeftButton", mods,
                                   st.current_mouse_position_on_grid, pressed))]
    ELSE IF pressed
    THEN process_left_button_pressed(st, lay, position)
    ELSE process_left_button_released(st, lay, terminal_mode, position, mods)

process_button_click(st, lay, terminal_mode, button, position, mods, pressed) ==
    IF button = "Primary"
    THEN process_left_button(st, lay, terminal_mode, position, mods, pressed)
    ELSE [state |-> st, action |-> Ignore]

\* process_mouse_move testing for any mouse-reporting flag, not MOUSE_MOTION
process_mouse_move_any_flag(st, lay, cont, position, mods) ==
    LET cursor_x == position.x - lay.rect_min.x
        cursor_y == position.y - lay.rect_min.y
        point == selection_point(cursor_x, cursor_y, cont.display_offset)
        st1 == [st EXCEPT !.current_mouse_position_on_grid = point]
        drag == IF st1.is_dragged
                THEN << IF intersects(cont.terminal_mode, MOUSE_MODE) /\ is_none(mods)
                        THEN BackendCall(MouseReport("LeftMove", mods, point, TRUE))
                        ELSE BackendCall(SelectUpdate(cursor_x, cursor_y)) >>
                ELSE <<>>
        hover == IF command_only(mods)
                 THEN << BackendCall(ProcessLink("Hover", point)) >>
                 ELSE <<>>
    IN  [state |-> st1, actions |-> drag \o hover]

\* process_mouse_move that reports a dragged move whatever modifier is held
process_mouse_move_any_modifier(st, lay, cont, position, mods) ==
    LET cursor_x == position.x - lay.rect_min.x
        cursor_y == position.y - lay.rect_min.y
        point == selection_point(cursor_x, cursor_y, cont.display_offset)
        st1 == [st EXCEPT !.current_mouse_position_on_grid = point]
        drag == IF st1.is_dragged
                THEN << IF contains(cont.terminal_mode, {"MOUSE_MOTION"})
                        THEN BackendCall(MouseReport("LeftMove", mods, point, TRUE))
                        ELSE BackendCall(SelectUpdate(cursor_x, cursor_y)) >>
                ELSE <<>>
        hover == IF command_only(mods)
                 THEN << BackendCall(ProcessLink("Hover", point)) >>
                 ELSE <<>>
    IN  [state |-> st1, actions |-> drag \o hover]

process_mouse_move(st, lay, cont, position, mods) ==
    LET cursor_x == position.x - lay.rect_min.x
        cursor_y == position.y - lay.rect_min.y
        point == selection_point(cursor_x, cursor_y, cont.display_offset)
        st1 == [st EXCEPT !.current_mouse_position_on_grid = point]
        drag == IF st1.is_dragged
                THEN << IF contains(cont.terminal_mode, {"MOUSE_MOTION"}) /\ is_none(mods)
                        THEN BackendCall(MouseReport("LeftMove", mods, point, TRUE))
                        ELSE BackendCall(SelectUpdate(cursor_x, cursor_y)) >>
                ELSE <<>>
        hover == IF command_only(mods)
                 THEN << BackendCall(ProcessLink("Hover", point)) >>
                 ELSE <<>>
    IN  [state |-> st1, actions |-> drag \o hover]

----------------------------------------------------------------------------
(* Keyboard, clipboard and paste events *)

\* the build target: the macOS and iOS builds take the other cfg branches
target_os_mac == FALSE

\* backend.selectable_content()
selectable_content == "selection"

\* egui Key::from_name on the texts the model types: "a" names Key::A and
\* "f" names Key::F
from_name(text) ==
    IF text = <<97>> THEN "A" ELSE IF text = <<102>> THEN "F" ELSE "None"

\* char::encode_utf8 for code points below 0x800
encode_utf8(c) == IF c < 128 THEN <<c>> ELSE <<192 + (c \div 64), 128 + (c % 64)>>

\* paste_payload that strips ESC only
RECURSIVE paste_payload_esc_only(_)
paste_payload_esc_only(text) ==
    IF text = <<>> THEN <<>>
    ELSE IF Head(text) # ESC
    THEN <<Head(text)>> \o paste_payload_esc_only(Tail(text))
    ELSE paste_payload_esc_only(Tail(text))

\* the payload loop of a bracketed paste: every byte but 0x1b and 0x03
RECURSIVE paste_payload(_)
paste_payload(text) ==
    IF text = <<>> THEN <<>>
    ELSE IF Head(text) # ESC /\ Head(text) # ETX
    THEN <<Head(text)>> \o paste_payload(Tail(text))
    ELSE paste_payload(Tail(text))

\* str::replace("\r\n", "\r")
RECURSIVE replace_crlf(_)
replace_crlf(text) ==
    IF text = <<>> THEN <<>>
    ELSE IF Len(text) >= 2 /\ text[1] = 13 /\ text[2] = 10
    THEN <<13>> \o replace_crlf(Tail(Tail(text)))
    ELSE <<Head(text)>> \o replace_crlf(Tail(text))

\* str::replace("\n", "\r")
RECURSIVE replace_lf(_)
replace_lf(text) ==
    IF text = <<>> THEN <<>>
    ELSE <<IF Head(text) = 10 THEN 13 ELSE Head(text)>> \o replace_lf(Tail(text))

\* process_paste without the replacement of "\r\n"
process_paste_lf_only(text, terminal_mode) ==
    BackendCall(
        IF contains(terminal_mode, {"BRACKETED_PASTE"})
        THEN Write(<<ESC, 91, 50, 48, 48, 126>> \o paste_payload(text)
                   \o <<ESC, 91, 50, 48, 49, 126>>)
        ELSE Write(replace_lf(text)))

process_paste(text, terminal_mode) ==
    BackendCall(
        IF contains(terminal_mode, {"BRACKETED_PASTE"})
        THEN Write(<<ESC, 91, 50, 48, 48, 126>> \o paste_payload(text)
                   \o <<ESC, 91, 50, 48, 49, 126>>)
        ELSE Write(replace_lf(replace_crlf(text))))

\* process_text_event that drops every text naming a key, bound or not
process_text_event_named_only(text, mods, terminal_mode) ==
    IF from_name(text) # "None"
    THEN Ignore
    ELSE BackendCall(Write(text))

process_text_event(text, mods, terminal_mode) ==
    IF from_name(text) # "None"
    THEN IF get_action(bindings_layout, KeyCode(from_name(text)), mods,
                       terminal_mode).type = "Ignore"
         THEN BackendCall(Write(text))
         ELSE Ignore
    ELSE BackendCall(Write(text))

process_keyboard_key(key, mods, pressed, terminal_mode) ==
    IF ~pressed THEN Ignore
    ELSE IF "command" \in mods /\ key = "F" THEN ToggleSearch
    ELSE LET binding_action ==
                 get_action(bindings_layout, KeyCode(key), mods, terminal_mode)
         IN  CASE binding_action.type = "Char" ->
                    BackendCall(Write(encode_utf8(binding_action.c)))
               [] binding_action.type = "Esc" ->
                    BackendCall(Write(binding_action.seq))
               [] OTHER -> Ignore

process_clipboard_event(byte, mods) ==
    IF target_os_mac \/ {"command", "shift"} \subseteq mods
    THEN WriteToClipboard(selectable_content)
    ELSE BackendCall(Write(<<byte>>))

search_key(event) ==
    IF event.kind # "Key" THEN Ignore
    ELSE IF ~event.pressed THEN Ignore
    ELSE IF event.key = "Escape" THEN ToggleSearch
    ELSE IF event.key = "F3"
    THEN (IF "shift" \in event.modifiers THEN SearchPrev ELSE SearchNext)
    ELSE IF event.key = "Enter"
            /\ ("ctrl" \in event.modifiers \/ "command" \in event.modifiers)
    THEN (IF "shift" \in event.modifiers THEN SearchPrev ELSE SearchNext)
    ELSE IF "command" \in event.modifiers /\ event.key = "F" THEN ToggleSearch
    ELSE Ignore

\* process_keyboard_event whose overlay branch takes key events only
process_keyboard_event_keys_only(event, mods, search_active, terminal_mode) ==
    IF search_active /\ event.kind = "Key" THEN search_key(event)
    ELSE CASE event.kind = "Text" -> process_text_event(event.text, mods, terminal_mode)
           [] event.kind = "Paste" -> process_paste(event.text, terminal_mode)
           [] event.kind = "Copy" -> process_clipboard_event(3, mods)
           [] event.kind = "Cut" -> process_clipboard_event(24, mods)
           [] event.kind = "Key" ->
                process_keyboard_key(event.key, event.modifiers, event.pressed,
                                     terminal_mode)
           [] OTHER -> Ignore

process_keyboard_event(event, mods, search_active, terminal_mode) ==
    IF search_active THEN search_key(event)
    ELSE CASE event.kind = "Text" -> process_text_event(event.text, mods, terminal_mode)
           [] event.kind = "Paste" -> process_paste(event.text, terminal_mode)
           [] event.kind = "Copy" -> process_clipboard_event(3, mods)
           [] event.kind = "Cut" -> process_clipboard_event(24, mods)
           [] event.kind = "Key" ->
                process_keyboard_key(event.key, event.modifiers, event.pressed,
                                     terminal_mode)
           [] OTHER -> Ignore

----------------------------------------------------------------------------
(* Applying the actions of one event (the second loop of process_input) *)

\* toggle_search that keeps the query when the overlay closes
toggle_search_keep_query(st) ==
    LET active == ~st.search_active
    IN  IF active
        THEN [st EXCEPT !.search_active = TRUE, !.search_just_opened = TRUE]
        ELSE [st EXCEPT !.search_active = FALSE]

toggle_search(st) ==
    LET active == ~st.search_active
    IN  IF active
        THEN [st EXCEPT !.search_active = TRUE, !.search_just_opened = TRUE]
        ELSE [st EXCEPT !.search_active = FALSE, !.search_query = ""]

----------------------------------------------------------------------------
(* Grid renderer: TerminalView::show *)

SEARCH_HIGHLIGHT_COLOR == 4
SEARCH_FOCUSED_HIGHLIGHT_COLOR == 5

\* TerminalTheme::get_color on the colours the model draws with; Black and
\* Background resolve to the same value
get_color(color) ==
    CASE color = "Background" -> 0
      [] color = "Black" -> 0
      [] color = "Foreground" -> 1
      [] color = "Red" -> 2
      [] color = "Cursor" -> 3

\* the primitives of one cell, in the order show pushes them
show_cell(cell, cont, scr, lay, st) ==
    IF "WIDE_CHAR_SPACER" \in cell.flags THEN <<>>
    ELSE
    LET global_bg == get_color("Background")
        is_app_cursor_mode == contains(cont.terminal_mode, {"APP_CURSOR"})
        is_wide_char == "WIDE_CHAR" \in cell.flags
        is_inverse == "INVERSE" \in cell.flags
        is_selected == cell.point \in scr.selectable_range
        is_hovered_hyperling ==
            /\ cell.point \in scr.hovered_hyperlink
            /\ st.current_mouse_position_on_grid \in scr.hovered_hyperlink
        is_search_match ==
            scr.search_state.active /\ cell.point \in scr.search_state.matches
        is_focused_search_match ==
            scr.search_state.active /\ cell.point \in scr.search_state.focused
        x == lay.rect_min.x + CellWidth * cell.point.column
        line_num == cell.point.line + cont.display_offset
        y == lay.rect_min.y + CellHeight * line_num
        swapped == is_inverse \/ is_selected
        fg == get_color(IF swapped THEN cell.bg ELSE cell.fg)
        bg == get_color(IF swapped THEN cell.fg ELSE cell.bg)
        cell_width == IF is_wide_char THEN CellWidth * 2 ELSE CellWidth
        at_cursor == scr.cursor = cell.point
    IN  (IF global_bg # bg
         THEN << [shape |-> "Rect", role |-> "cell", point |-> cell.point,
                  x |-> x, y |-> y,
                  width |-> cell_width + Denom, height |-> CellHeight + Denom,
                  fill |-> bg] >>
         ELSE <<>>)
        \o (IF is_search_match
            THEN << [shape |-> "Rect", role |-> "search", point |-> cell.point,
                     x |-> x, y |-> y,
                     width |-> cell_width + Denom, height |-> CellHeight + Denom,
                     fill |-> IF is_focused_search_match
                              THEN SEARCH_FOCUSED_HIGHLIGHT_COLOR
                              ELSE SEARCH_HIGHLIGHT_COLOR] >>
            ELSE <<>>)
        \o (IF is_hovered_hyperling
            THEN << [shape |-> "LineSegment", role |-> "link", point |-> cell.point,
                     x |-> x, y |-> y + CellHeight, width |-> cell_width,
                     stroke |-> fg] >>
            ELSE <<>>)
        \o (IF at_cursor
            THEN << [shape |-> "Rect", role |-> "cursor", point |-> cell.point,
                     x |-> x, y |-> y, width |-> cell_width, height |-> CellHeight,
                     fill |-> get_color("Cursor")] >>
            ELSE <<>>)
        \o (IF cell.c # 32 /\ cell.c # 9
            THEN << [shape |-> "Text", role |-> "glyph", point |-> cell.point,
                     twice_x |-> 2 * x + cell_width, y |-> y, c |-> cell.c,
                     color |-> IF at_cursor /\ is_app_cursor_mode THEN bg ELSE fg] >>
            ELSE <<>>)

\* the loop of show over content.grid.display_iter()
RECURSIVE show_cells(_, _, _, _, _)
show_cells(cells, cont, scr, lay, st) ==
    IF cells = <<>> THEN <<>>
    ELSE show_cell(Head(cells), cont, scr, lay, st)
         \o show_cells(Tail(cells), cont, scr, lay, st)

\* show that pushes the background fill after the cells
show_shapes_fill_last(cont, scr, lay, st) ==
    show_cells(scr.cells, cont, scr, lay, st)
    \o << [shape |-> "Rect", role |-> "background", x |-> lay.rect_min.x,
           y |-> lay.rect_min.y, fill |-> get_color("Background")] >>

\* the shapes vector of show: the background fill, then the cells
show_shapes(cont, scr, lay, st) ==
    << [shape |-> "Rect", role |-> "background", x |-> lay.rect_min.x,
        y |-> lay.rect_min.y, fill |-> get_color("Background")] >>
    \o show_cells(scr.cells, cont, scr, lay, st)

\* the snapshot of a backend whose grid has no cell
EmptyScreen ==
    [cells |-> <<>>, cursor |-> [line |-> 0, column |-> 0],
     selectable_range |-> {}, hovered_hyperlink |-> {},
     search_state |-> [active |-> FALSE, matches |-> {}, focused |-> {}]]

----------------------------------------------------------------------------
(* Search navigation and the loop that applies the actions *)

\* search_next / search_prev, then scroll_to_point when a match came back
search_move(nav, match) ==
    << [call |-> nav, reply |-> match] >>
    \o (IF match.found THEN << [call |-> "scroll_to_point", point |-> match.point] >>
        ELSE <<>>)

\* search_step without the backend.search_active() test
search_step_unchecked(nav, reply) ==
    search_move(nav, reply.match)

\* the SearchNext / SearchPrev arms: reply is what the backend answers
search_step(nav, reply) ==
    << [call |-> "search_active", reply |-> reply.search_active] >>
    \o (IF reply.search_active THEN search_move(nav, reply.match) ELSE <<>>)

\* apply_actions whose ToggleSearch tells the backend only of an opening
RECURSIVE apply_actions_open_only(_, _)
apply_actions_open_only(actions, sb) ==
    IF actions = <<>> THEN sb
    ELSE LET a == Head(actions)
             next ==
                 CASE a.type = "ToggleSearch" /\ ~sb.state.search_active ->
                        [sb EXCEPT !.state = toggle_search(sb.state),
                                   !.backend_search = TRUE,
                                   !.calls = @ \o << [call |-> "search_set_active",
                                                      value |-> TRUE] >>]
                   [] a.type = "ToggleSearch" /\ sb.state.search_active ->
                        [sb EXCEPT !.state = toggle_search(sb.state)]
                   [] a.type = "SearchNext" ->
                        [sb EXCEPT !.calls = @ \o search_step("search_next", sb.reply)]
                   [] a.type = "SearchPrev" ->
                        [sb EXCEPT !.calls = @ \o search_step("search_prev", sb.reply)]
                   [] OTHER -> sb
         IN  apply_actions_open_only(Tail(actions), next)

RECURSIVE apply_actions(_, _)
apply_actions(actions, sb) ==
    IF actions = <<>> THEN sb
    ELSE LET a == Head(actions)
             next ==
                 CASE a.type = "ToggleSearch" ->
                        [sb EXCEPT !.state = toggle_search(sb.state),
                                   !.backend_search = ~sb.state.search_active,
                                   !.calls = @ \o << [call |-> "search_set_active",
                                                      value |-> ~sb.state.search_active] >>]
                   [] a.type = "SearchNext" ->
                        [sb EXCEPT !.calls = @ \o search_step("search_next", sb.reply)]
                   [] a.type = "SearchPrev" ->
                        [sb EXCEPT !.calls = @ \o search_step("search_prev", sb.reply)]
                   [] OTHER -> sb
         IN  apply_actions(Tail(actions), next)

----------------------------------------------------------------------------
(* Inputs of the model *)

Units == {"Line", "Point", "Page"}
Deltas == -MaxDelta .. MaxDelta
Buttons == {"Primary", "Secondary"}
Origins == { [x |-> 0, y |-> 0], [x |-> MaxOrigin, y |-> 2 * MaxOrigin] }
Offsets == 0 .. MaxOffset
Queries == {"", "q"}
Keys == {"Escape", "F3", "Enter", "F", "A", "ArrowUp"}
KeyModifiers == { {}, {"command"}, {"shift"}, {"ctrl", "shift"} }
PasteBytes == {ESC, ETX, 10, 13, 97}
Texts == { <<97>>, <<102>>, <<195, 169>> }

RECURSIVE ByteStrings(_)
ByteStrings(n) ==
    IF n = 0 THEN { <<>> }
    ELSE LET shorter == ByteStrings(n - 1)
         IN  shorter \cup { <<b>> \o t : b \in PasteBytes,
                                         t \in { u \in shorter : Len(u) = n - 1 } }

PasteTexts == ByteStrings(MaxPaste)

\* what the backend answers to search_active() and search_next() / search_prev()
NoMatch == [found |-> FALSE]
Matches == { NoMatch, [found |-> TRUE, point |-> [line |-> 1, column |-> 0]] }
NoReply == [search_active |-> FALSE, match |-> NoMatch]
BackendReplies == [search_active : BOOLEAN, match : Matches]

\* the button of the search panel clicked in a frame, if any
PanelClicks == {"none", "prev", "next", "search"}

\* the frames of a run: focus flag, held modifiers, the Response's pointer
\* and click flags, the widget's top-left corner, the overlay's query text
FrameSet(focus, mods, inside, clicks, origins, queries) ==
    { [has_focus |-> f, modifiers |-> m, contains_pointer |-> c,
       double_clicked |-> k[1], triple_clicked |-> k[2], rect_min |-> o,
       query |-> q] :
      f \in focus, m \in mods, c \in inside, k \in clicks, o \in origins,
      q \in queries }

NoClick == { <<FALSE, FALSE>> }
\* one click of a frame is single, double or triple
ClickFlags == { <<FALSE, FALSE>>, <<TRUE, FALSE>>, <<FALSE, TRUE>> }

WheelFrames == FrameSet({TRUE}, {{}}, BOOLEAN, NoClick, {[x |-> 0, y |-> 0]}, {""})
WheelModes == SUBSET {"MOUSE_REPORT_CLICK", "MOUSE_MOTION", "ALT_SCREEN",
                      "ALTERNATE_SCROLL"}
PointerFrames == FrameSet({TRUE}, {{}, {"command"}, {"shift"}}, BOOLEAN,
                          ClickFlags, Origins, {""})
PointerModes == { {}, {"MOUSE_REPORT_CLICK"}, {"MOUSE_MOTION"} }
KeyFrames == FrameSet(BOOLEAN, {{}, {"command", "shift"}}, {TRUE}, NoClick,
                      {[x |-> 0, y |-> 0]}, Queries)
KeyModes == SUBSET {"BRACKETED_PASTE", "ALT_SCREEN"}
PasteFrames == FrameSet(BOOLEAN, {{}}, {TRUE}, NoClick, {[x |-> 0, y |-> 0]}, {""})
PasteModes == SUBSET {"BRACKETED_PASTE"}
AllFrames == FrameSet(BOOLEAN, KeyModifiers, BOOLEAN, ClickFlags, Origins, Queries)
AllModes == SUBSET ModeFlags

----------------------------------------------------------------------------
(* The widget as a state machine *)

\* the state after construction, over a backend that holds one of screens
InitWith(screens) ==
    /\ screen \in screens
    /\ painter = <<>>
    /\ state = [is_dragged |-> FALSE, scroll_pixels |-> 0,
                current_mouse_position_on_grid |-> [line |-> 0, column |-> 0],
                search_query |-> "", search_active |-> FALSE,
                search_just_opened |-> FALSE]
    /\ content = [terminal_mode |-> {}, display_offset |-> 0]
    /\ backend_search = FALSE
    /\ pc = "idle"
    /\ has_focus = FALSE
    /\ modifiers = {}
    /\ layout = [contains_pointer |-> FALSE, double_clicked |-> FALSE,
                 triple_clicked |-> FALSE, rect_min |-> [x |-> 0, y |-> 0]]
    /\ last_event = [kind |-> "None"]
    /\ input_actions = <<>>
    /\ total_delta = 0
    /\ total_scroll = 0
    /\ plain_points = TRUE
    /\ backend_calls = <<>>
    /\ events = <<>>
    /\ cursor = 0

\* a backend with an empty grid
Init == InitWith({ EmptyScreen })

\* the overlay part of ui: the one-shot focus request and the query TextEdit
search_panel(st, query) ==
    IF st.search_active
    THEN [st EXCEPT !.search_just_opened = FALSE, !.search_query = query]
    ELSE st

\* the backend calls of the search panel: the edited query, the buttons
panel_calls(st, query, click, match) ==
    IF ~st.search_active THEN <<>>
    ELSE (IF query # st.search_query
          THEN << [call |-> "search_set_query", query |-> query] >> ELSE <<>>)
         \o (IF click = "prev" THEN search_move("search_prev", match) ELSE <<>>)
         \o (IF click = "next" THEN search_move("search_next", match) ELSE <<>>)
         \o (IF click = "search"
             THEN << [call |-> "search_set_query", query |-> query] >> ELSE <<>>)

\* TerminalView::ui up to the event loop of process_input, for a frame whose
\* event list is one of lists
BeginFrameWith(frames, lists) ==
    /\ pc = "idle"
    /\ \E c \in frames :
         /\ state' = search_panel(state, c.query)
         /\ has_focus' = c.has_focus
         /\ modifiers' = c.modifiers
         /\ layout' = [contains_pointer |-> c.contains_pointer,
                       double_clicked |-> c.double_clicked,
                       triple_clicked |-> c.triple_clicked,
                       rect_min |-> c.rect_min]
         /\ \E click \in (IF state.search_active THEN PanelClicks ELSE {"none"}) :
              \E match \in (IF click \in {"prev", "next"} THEN Matches ELSE {NoMatch}) :
                backend_calls' = panel_calls(state, c.query, click, match)
    /\ events' \in lists
    /\ cursor' = 0
    /\ pc' = "input"
    /\ last_event' = [kind |-> "BeginFrame"]
    /\ input_actions' = <<>>
    /\ painter' = <<>>
    /\ UNCHANGED <<content, backend_search, total_delta, total_scroll, plain_points,
                   screen>>

\* a frame whose events are drawn one by one as they are handled
BeginFrame(frames) == BeginFrameWith(frames, { <<>> })

\* one pass of the event loop: the event's actions are collected, then applied
Dispatch(event, st, actions) ==
    /\ pc = "input"
    /\ \E reply \in (IF \E i \in DOMAIN actions :
                           actions[i].type \in {"SearchNext", "SearchPrev"}
                     THEN BackendReplies ELSE {NoReply}) :
         LET r == apply_actions(actions, [state |-> st,
                                          backend_search |-> backend_search,
                                          calls |-> <<>>, reply |-> reply])
         IN  /\ state' = r.state
             /\ backend_search' = r.backend_search
             /\ backend_calls' = r.calls
    /\ last_event' = event
    /\ input_actions' = actions
    /\ UNCHANGED <<content, pc, has_focus, modifiers, layout, screen, painter>>

\* KeyboardEvent without the has_focus test
KeyboardEvent_unfocused(event) ==
    /\ Dispatch(event, state,
                << process_keyboard_event(event, modifiers, state.search_active,
                                          content.terminal_mode) >>)
    /\ UNCHANGED <<total_delta, total_scroll, plain_points>>

KeyboardEvent(event) ==
    /\ Dispatch(event, state,
                IF has_focus
                THEN << process_keyboard_event(event, modifiers, state.search_active,
                                               content.terminal_mode) >>
                ELSE <<>>)
    /\ UNCHANGED <<total_delta, total_scroll, plain_points>>

scrolled(action) ==
    IF action.type = "BackendCall" /\ action.cmd.name = "Scroll"
    THEN action.cmd.lines ELSE 0

plain_mode(mode) ==
    /\ ~intersects(mode, MOUSE_MODE)
    /\ ~contains(mode, {"ALT_SCREEN", "ALTERNATE_SCROLL"})

MouseWheel(unit, delta_y) ==
    LET event == [kind |-> "MouseWheel", unit |-> unit, delta_y |-> delta_y,
                  before_pixels |-> state.scroll_pixels]
        r == process_mouse_wheel(state, FontSize, unit, delta_y, content.terminal_mode)
    IN  IF layout.contains_pointer
        THEN /\ Dispatch(event, r.state, <<r.action>>)
             /\ plain_points' = (plain_points /\ unit = "Point"
                                 /\ plain_mode(content.terminal_mode))
             /\ total_delta' = IF plain_points' THEN total_delta + delta_y ELSE 0
             /\ total_scroll' = IF plain_points' THEN total_scroll + scrolled(r.action)
                                ELSE 0
             /\ Abs(total_delta') <= MaxTotal
        ELSE /\ Dispatch(event, state, <<>>)
             /\ UNCHANGED <<total_delta, total_scroll, plain_points>>

PointerButton(button, pressed, mods, pos) ==
    LET event == [kind |-> "PointerButton", button |-> button, pressed |-> pressed,
                  modifiers |-> mods, pos |-> pos]
        r == process_button_click(state, layout, content.terminal_mode, button, pos,
                                  mods, pressed)
    IN  /\ IF layout.contains_pointer
           THEN Dispatch(event, r.state, <<r.action>>)
           ELSE Dispatch(event, state, <<>>)
        /\ UNCHANGED <<total_delta, total_scroll, plain_points>>

\* PointerMoved without the contains_pointer test
PointerMoved_unbounded(pos) ==
    LET event == [kind |-> "PointerMoved", pos |-> pos]
        r == process_mouse_move(state, layout, content, pos, modifiers)
    IN  /\ Dispatch(event, r.state, r.actions)
        /\ UNCHANGED <<total_delta, total_scroll, plain_points>>

PointerMoved(pos) ==
    LET event == [kind |-> "PointerMoved", pos |-> pos]
        r == process_mouse_move(state, layout, content, pos, modifiers)
    IN  /\ IF layout.contains_pointer
           THEN Dispatch(event, r.state, r.actions)
           ELSE Dispatch(event, state, <<>>)
        /\ UNCHANGED <<total_delta, total_scroll, plain_points>>

\* TerminalView::show: the backend is synchronised, the state is stored
\* EndFrame that also drops the pending focus request of the overlay
EndFrame_consume(modes, offsets) ==
    /\ pc = "input"
    /\ cursor = Len(events)
    /\ \E m \in modes, o \in offsets :
         content' = [terminal_mode |-> m, display_offset |-> o]
    /\ state' = [state EXCEPT !.search_just_opened = FALSE]
    /\ backend_calls' = << [call |-> "sync"] >>
    /\ screen' = screen
    /\ painter' = << show_shapes(content', screen', layout, state) >>
    /\ events' = <<>>
    /\ cursor' = 0
    /\ pc' = "idle"
    /\ last_event' = [kind |-> "None"]
    /\ input_actions' = <<>>
    /\ UNCHANGED <<backend_search, has_focus, modifiers, layout,
                   total_delta, total_scroll, plain_points>>

EndFrame(modes, offsets) ==
    /\ pc = "input"
    /\ cursor = Len(events)
    /\ \E m \in modes, o \in offsets :
         content' = [terminal_mode |-> m, display_offset |-> o]
    /\ backend_calls' = << [call |-> "sync"] >>
    /\ screen' = screen
    /\ painter' = << show_shapes(content', screen', layout, state) >>
    /\ events' = <<>>
    /\ cursor' = 0
    /\ pc' = "idle"
    /\ last_event' = [kind |-> "None"]
    /\ input_actions' = <<>>
    /\ UNCHANGED <<state, backend_search, has_focus, modifiers, layout,
                   total_delta, total_scroll, plain_points>>

\* pointer positions inside the widget of the running frame
Positions ==
    { [x |-> layout.rect_min.x + dx, y |-> layout.rect_min.y + dy] :
      dx \in {0, MaxPix}, dy \in {0, MaxPix} }

\* pastes of any text up to MaxPaste bytes
PasteEvents == { [kind |-> "Paste", text |-> t] : t \in PasteTexts }

\* typed text, clipboard shortcuts, keys and pastes of at most one byte
KeyEvents ==
    { [kind |-> "Text", text |-> t] : t \in Texts }
    \cup { [kind |-> "Paste", text |-> t] : t \in ByteStrings(1) }
    \cup { [kind |-> "Copy"], [kind |-> "Cut"] }
    \cup { [kind |-> "Key", key |-> k, pressed |-> p, modifiers |-> m] :
           k \in Keys, p \in BOOLEAN, m \in KeyModifiers }

AnyKeyboardEvent(evs) ==
    /\ \E e \in evs : KeyboardEvent(e)
    /\ UNCHANGED <<events, cursor>>
AnyMouseWheel ==
    /\ \E u \in Units, d \in Deltas : MouseWheel(u, d)
    /\ UNCHANGED <<events, cursor>>
AnyPointerButton ==
    /\ \E b \in Buttons, p \in BOOLEAN, m \in {{}, {"command"}}, pos \in Positions :
          PointerButton(b, p, m, pos)
    /\ UNCHANGED <<events, cursor>>
AnyPointerMoved ==
    /\ \E pos \in Positions : PointerMoved(pos)
    /\ UNCHANGED <<events, cursor>>

NextWheel ==
    \/ BeginFrame(WheelFrames)
    \/ AnyMouseWheel
    \/ EndFrame(WheelModes, {0})

NextPointer ==
    \/ BeginFrame(PointerFrames)
    \/ AnyPointerButton
    \/ AnyPointerMoved
    \/ EndFrame(PointerModes, Offsets)

\* the loop over the frame's events reversed: newest event first
next_event_newest_first(evs, handled) == evs[Len(evs) - handled]

\* for event in events: the event the loop takes after handled of them
next_event(evs, handled) == evs[handled + 1]

\* one pass of the loop of process_input over a list fixed in advance
NextEvent ==
    /\ pc = "input"
    /\ cursor < Len(events)
    /\ LET e == next_event(events, cursor)
       IN  CASE e.kind = "MouseWheel" -> MouseWheel(e.unit, e.delta_y)
             [] e.kind = "PointerButton" ->
                  PointerButton(e.button, e.pressed, e.modifiers, e.pos)
             [] e.kind = "PointerMoved" -> PointerMoved(e.pos)
             [] OTHER -> KeyboardEvent(e)
    /\ cursor' = cursor + 1
    /\ UNCHANGED events

\* the events of the frames whose list is fixed in advance
OrderPos == [x |-> MaxPix, y |-> MaxPix]
OrderEvents ==
    { [kind |-> "Key", key |-> "F", pressed |-> TRUE, modifiers |-> {"command"}],
      [kind |-> "Key", key |-> "Escape", pressed |-> TRUE, modifiers |-> {}],
      [kind |-> "Text", text |-> <<97>>],
      [kind |-> "PointerButton", button |-> "Primary", pressed |-> TRUE,
       modifiers |-> {}, pos |-> OrderPos],
      [kind |-> "PointerButton", button |-> "Primary", pressed |-> FALSE,
       modifiers |-> {}, pos |-> OrderPos],
      [kind |-> "PointerMoved", pos |-> OrderPos],
      [kind |-> "MouseWheel", unit |-> "Line", delta_y |-> 1] }
OrderLists == UNION { [1 .. n -> OrderEvents] : n \in 0 .. MaxEvents }
OrderFrames == FrameSet({TRUE}, {{}}, {TRUE}, NoClick, {[x |-> 0, y |-> 0]}, {""})
OrderModes == { {} }

NextOrder ==
    \/ BeginFrameWith(OrderFrames, OrderLists)
    \/ NextEvent
    \/ EndFrame(OrderModes, {0})

\* text events and the presses of the keys they name
TextFrames == FrameSet(BOOLEAN, {{}, {"command"}}, {TRUE}, NoClick,
                       {[x |-> 0, y |-> 0]}, {""})
TextModes == SUBSET {"ALT_SCREEN"}
TextEvents ==
    { [kind |-> "Text", text |-> t] : t \in Texts }
    \cup { [kind |-> "Key", key |-> k, pressed |-> p, modifiers |-> m] :
           k \in {"A", "F", "Enter", "ArrowUp", "Escape"}, p \in BOOLEAN,
           m \in {{}, {"command"}} }

NextText ==
    \/ BeginFrame(TextFrames)
    \/ AnyKeyboardEvent(TextEvents)
    \/ EndFrame(TextModes, {0})

\* the snapshots show is run on: rows of up to MaxCells cells
GridPoint(i) == [line |-> 0, column |-> i - 1]
GridPoints == { GridPoint(i) : i \in 1 .. MaxCells }
CellKinds ==
    { [c |-> 32, flags |-> {}, fg |-> "Foreground", bg |-> "Black"],
      [c |-> 9, flags |-> {}, fg |-> "Foreground", bg |-> "Black"],
      [c |-> 32, flags |-> {}, fg |-> "Foreground", bg |-> "Red"],
      [c |-> 120, flags |-> {}, fg |-> "Foreground", bg |-> "Black"],
      [c |-> 120, flags |-> {"WIDE_CHAR"}, fg |-> "Foreground", bg |-> "Red"],
      [c |-> 32, flags |-> {"WIDE_CHAR_SPACER"}, fg |-> "Foreground", bg |-> "Black"],
      [c |-> 120, flags |-> {"WIDE_CHAR_SPACER"}, fg |-> "Foreground", bg |-> "Red"] }
CellRows ==
    UNION { { [i \in 1 .. n |->
                 [point |-> GridPoint(i), c |-> k[i].c, flags |-> k[i].flags,
                  fg |-> k[i].fg, bg |-> k[i].bg]] : k \in [1 .. n -> CellKinds] } :
            n \in 0 .. MaxCells }
SearchStates ==
    { [active |-> FALSE, matches |-> GridPoints, focused |-> {GridPoint(1)}],
      [active |-> TRUE, matches |-> {}, focused |-> {}],
      [active |-> TRUE, matches |-> GridPoints, focused |-> {GridPoint(1)}] }
Screens ==
    [cells : CellRows,
     cursor : GridPoints \cup { GridPoint(MaxCells + 1) },
     selectable_range : { {}, GridPoints },
     hovered_hyperlink : { {}, GridPoints, GridPoints \ {GridPoint(1)} },
     search_state : SearchStates]
ShowFrames == FrameSet({TRUE}, {{}}, {TRUE}, NoClick,
                       {[x |-> MaxOrigin, y |-> 2 * MaxOrigin]}, {""})
ShowModes == SUBSET {"APP_CURSOR"}

InitShow == InitWith(Screens)

NextShow ==
    \/ BeginFrame(ShowFrames)
    \/ EndFrame(ShowModes, Offsets)

NextKeys ==
    \/ BeginFrame(KeyFrames)
    \/ AnyKeyboardEvent(KeyEvents)
    \/ EndFrame(KeyModes, {0})

NextPaste ==
    \/ BeginFrame(PasteFrames)
    \/ AnyKeyboardEvent(PasteEvents)
    \/ EndFrame(PasteModes, {0})

Next ==
    \/ BeginFrame(AllFrames)
    \/ AnyKeyboardEvent(KeyEvents \cup PasteEvents)
    \/ AnyMouseWheel
    \/ AnyPointerButton
    \/ AnyPointerMoved
    \/ EndFrame(AllModes, Offsets)

\* the whole widget, and its restrictions to one family of events
Spec == Init /\ [][Next]_vars
SpecWheel == Init /\ [][NextWheel]_vars
SpecPointer == Init /\ [][NextPointer]_vars
SpecKeys == Init /\ [][NextKeys]_vars
SpecPaste == Init /\ [][NextPaste]_vars
SpecOrder == Init /\ [][NextOrder]_vars
SpecText == Init /\ [][NextText]_vars
SpecShow == InitShow /\ [][NextShow]_vars

----------------------------------------------------------------------------
(* Properties of the scroll translator (checked under SpecWheel) *)

WheelHandled ==
    /\ pc = "input"
    /\ last_event.kind = "MouseWheel"
    /\ layout.contains_pointer

\* the line count of the wheel event handled last
EventLines ==
    wheel_lines(last_event.before_pixels, FontSize, last_event.unit,
                last_event.delta_y).lines

MouseReporting == intersects(content.terminal_mode, MOUSE_MODE)

\* C1: a wheel event with a non-zero line count, handled while any
\* mouse-reporting flag is set, yields exactly one MouseReport: ScrollDown
\* for lines > 0, ScrollUp for lines < 0, no line count in it, and neither a
\* Scroll nor a Write, also when alt-screen and alternate-scroll are set.
C1_MouseModeWheelReports ==
    (WheelHandled /\ MouseReporting /\ EventLines # 0) =>
        /\ input_actions =
             << BackendCall(MouseReport(IF EventLines > 0 THEN "ScrollDown"
                                        ELSE "ScrollUp",
                                        NONE, state.current_mouse_position_on_grid,
                                        TRUE)) >>
        /\ IssuedNames = {"MouseReport"}

C1_Witness ==
    /\ WheelHandled
    /\ {"MOUSE_MOTION", "ALT_SCREEN", "ALTERNATE_SCROLL"} \subseteq content.terminal_mode
    /\ EventLines < -1
    /\ \E c \in Issued : c.name = "MouseReport" /\ c.button = "ScrollUp"

\* C6: while every wheel event so far was a Point event handled in a mode
\* that scrolls the scrollback, whenever the deltas sum to a multiple k of
\* the font size the Scroll commands issued sum to -k lines and the
\* accumulator is 0; and one event of one and a half rows from an empty
\* accumulator issues Scroll(1) and leaves half a row.
C6_AccumulatorCorrect ==
    /\ (plain_points /\ total_delta % FontSize = 0) =>
          /\ total_scroll * FontSize = -total_delta
          /\ state.scroll_pixels = 0
    /\ (/\ WheelHandled
        /\ last_event.unit = "Point"
        /\ plain_mode(content.terminal_mode)
        /\ last_event.before_pixels = 0
        /\ last_event.delta_y = -(FontSize + FontSize \div 2)) =>
          /\ input_actions = << BackendCall(Scroll(1)) >>
          /\ state.scroll_pixels = FontSize \div 2

C6_Witness ==
    /\ WheelHandled
    /\ plain_points
    /\ total_delta = -2 * FontSize
    /\ last_event.delta_y % FontSize # 0
    /\ last_event.before_pixels # 0
    /\ total_scroll = 2
    /\ state.scroll_pixels = 0

\* C7: after every Point wheel event that was handled, the accumulator
\* holds less than one row: |scroll_pixels| < font size.
C7_AccumulatorBelowOneRow ==
    (WheelHandled /\ last_event.unit = "Point") =>
        Abs(state.scroll_pixels) < FontSize

C7_Witness ==
    /\ WheelHandled
    /\ last_event.unit = "Point"
    /\ Abs(last_event.before_pixels - last_event.delta_y) > FontSize
    /\ last_event.before_pixels # 0
    /\ state.scroll_pixels < 0

----------------------------------------------------------------------------
(* Properties of the selection controller (checked under SpecPointer) *)

ButtonHandled ==
    /\ pc = "input"
    /\ last_event.kind = "PointerButton"
    /\ layout.contains_pointer

MoveHandled ==
    /\ pc = "input"
    /\ last_event.kind = "PointerMoved"
    /\ layout.contains_pointer

\* C2: no event handled while a mouse-reporting flag is set issues
\* SelectStart or SelectUpdate.
C2_NoSelectionUnderMouseMode ==
    (pc = "input" /\ MouseReporting) =>
        IssuedNames \cap {"SelectStart", "SelectUpdate"} = {}

\* C3 as stated: under mouse reporting every button press and release
\* within bounds issues a MouseReport, whichever button it is.
C3_AnyButtonReports ==
    (ButtonHandled /\ MouseReporting) => "MouseReport" \in IssuedNames

\* C3 amended: under mouse reporting every primary-button press and release
\* within bounds issues exactly MouseReport(LeftButton, the event's modifiers,
\* the stored grid position, pressed), whatever is_dragged is; any other
\* button issues nothing.
C3_PrimaryButtonReports ==
    (ButtonHandled /\ MouseReporting) =>
        IF last_event.button = "Primary"
        THEN input_actions =
               << BackendCall(MouseReport("LeftButton", last_event.modifiers,
                                          state.current_mouse_position_on_grid,
                                          last_event.pressed)) >>
        ELSE input_actions = << Ignore >>

C3_Witness ==
    /\ ButtonHandled
    /\ MouseReporting
    /\ state.is_dragged
    /\ last_event.button = "Primary"
    /\ ~last_event.pressed
    /\ "MouseReport" \in IssuedNames

\* C4: after a primary-button release has been delivered, is_dragged is
\* false, in every terminal mode and at every pointer position.
C4_ReleaseEndsDrag ==
    (/\ pc = "input"
     /\ last_event.kind = "PointerButton"
     /\ last_event.button = "Primary"
     /\ ~last_event.pressed) => ~state.is_dragged

\* the SelectStart kind the click flags of the frame call for
ClickKind ==
    IF layout.double_clicked THEN "Semantic"
    ELSE IF layout.triple_clicked THEN "Lines"
    ELSE "Simple"

\* C9: with mouse reporting off, a primary press, or a primary release that
\* is a double or triple click, within bounds issues exactly one SelectStart:
\* Simple for a plain click, Semantic for a double click, Lines for a triple
\* click, at the pointer position minus the widget's top-left corner.
C9_SelectStartKind ==
    (/\ ButtonHandled
     /\ ~MouseReporting
     /\ last_event.button = "Primary"
     /\ (last_event.pressed \/ layout.double_clicked \/ layout.triple_clicked)) =>
        input_actions =
          << BackendCall(SelectStart(ClickKind,
                                     last_event.pos.x - layout.rect_min.x,
                                     last_event.pos.y - layout.rect_min.y)) >>

C9_Witness ==
    /\ ButtonHandled
    /\ ~MouseReporting
    /\ last_event.button = "Primary"
    /\ last_event.pressed
    /\ layout.double_clicked
    /\ layout.rect_min.y > 0
    /\ BackendCall(SelectStart("Semantic", MaxPix, 0)) \in
         { input_actions[i] : i \in DOMAIN input_actions }

\* C10: a pointer move handled while is_dragged is true issues
\* MouseReport(LeftMove, NONE, the grid point of the move, pressed) and no
\* SelectUpdate when MOUSE_MOTION is set and no modifier is held, and in
\* every other case SelectUpdate with the widget-relative position and no
\* MouseReport.
C10_DragMoveReportsOrUpdates ==
    (MoveHandled /\ state.is_dragged) =>
        LET x == last_event.pos.x - layout.rect_min.x
            y == last_event.pos.y - layout.rect_min.y
        IN  /\ state.current_mouse_position_on_grid =
                 selection_point(x, y, content.display_offset)
            /\ IF "MOUSE_MOTION" \in content.terminal_mode /\ modifiers = {}
               THEN /\ input_actions[1] =
                         BackendCall(MouseReport("LeftMove", NONE,
                                       state.current_mouse_position_on_grid, TRUE))
                    /\ "SelectUpdate" \notin IssuedNames
               ELSE /\ input_actions[1] = BackendCall(SelectUpdate(x, y))
                    /\ "MouseReport" \notin IssuedNames

C10_Witness ==
    /\ MoveHandled
    /\ state.is_dragged
    /\ "MOUSE_MOTION" \in content.terminal_mode
    /\ modifiers = {}
    /\ state.current_mouse_position_on_grid.column > 0
    /\ \E c \in Issued : c.name = "MouseReport" /\ c.button = "LeftMove"

----------------------------------------------------------------------------
(* Properties of the search overlay (SpecKeys) and of pastes (SpecPaste) *)

\* C5: in every state stored at the end of a frame, search_just_opened
\* implies search_active.
C5_JustOpenedImpliesActive ==
    pc = "idle" => (state.search_just_opened => state.search_active)

PasteHandled ==
    /\ pc = "input"
    /\ last_event.kind = "Paste"
    /\ has_focus
    /\ ~state.search_active

KeptByPaste(b) == b # ESC /\ b # ETX

\* C8: a paste handled while BRACKETED_PASTE is set issues one Write: the
\* marker ESC[200~, the pasted bytes in order without the 0x1b and 0x03
\* bytes and with every other byte unchanged, the marker ESC[201~; no byte
\* between the markers is 0x1b or 0x03.
C8_BracketedPastePayload ==
    (PasteHandled /\ "BRACKETED_PASTE" \in content.terminal_mode) =>
        /\ Len(input_actions) = 1
        /\ input_actions[1].type = "BackendCall"
        /\ input_actions[1].cmd.name = "Write"
        /\ LET bytes == input_actions[1].cmd.bytes
               n == Len(bytes)
           IN  /\ n >= 12
               /\ SubSeq(bytes, 1, 6) = <<27, 91, 50, 48, 48, 126>>
               /\ SubSeq(bytes, n - 5, n) = <<27, 91, 50, 48, 49, 126>>
               /\ SubSeq(bytes, 7, n - 6) = SelectSeq(last_event.text, KeptByPaste)
               /\ \A i \in 7 .. (n - 6) : bytes[i] # 27 /\ bytes[i] # 3

C8_Witness ==
    /\ PasteHandled
    /\ "BRACKETED_PASTE" \in content.terminal_mode
    /\ last_event.text = <<ESC, 10, ETX>>
    /\ input_actions = << BackendCall(Write(<<27, 91, 50, 48, 48, 126, 10,
                                              27, 91, 50, 48, 49, 126>>)) >>

\* ---- the search overlay --------------------------------------------------

KeyboardKinds == {"Text", "Paste", "Copy", "Cut", "Key"}

\* the step handles a text, key, copy, cut or paste event
KeyboardStep ==
    /\ pc = "input"
    /\ pc' = "input"
    /\ last_event'.kind \in KeyboardKinds

\* the step handles a press of F with the command modifier held
OpenShortcutStep ==
    /\ KeyboardStep
    /\ last_event'.kind = "Key"
    /\ last_event'.key = "F"
    /\ last_event'.pressed
    /\ "command" \in last_event'.modifiers

\* C11: a press of Cmd+F handled by the focused widget while the overlay is
\* closed sets search_active and search_just_opened; the start of the next
\* frame consumes the focus request, which clears search_just_opened and
\* leaves search_active set; search_just_opened turns true only in a step
\* that opens the overlay.
C11_OpenConsumedNextFrame ==
    [][ /\ (OpenShortcutStep /\ has_focus /\ ~state.search_active) =>
              (state'.search_active /\ state'.search_just_opened)
        /\ (pc = "idle" /\ pc' = "input" /\ state.search_just_opened) =>
              (state'.search_active /\ ~state'.search_just_opened)
        /\ (~state.search_just_opened /\ state'.search_just_opened) =>
              (/\ input_actions' = << ToggleSearch >>
               /\ ~state.search_active
               /\ state'.search_active) ]_vars

\* C12: in every state, the persisted ones included, a closed overlay has an
\* empty query: closing clears it and only an open overlay edits it.
C12_ClosedOverlayHasEmptyQuery ==
    ~state.search_active => state.search_query = ""

C12_Witness ==
    /\ pc = "input"
    /\ last_event.kind = "Key"
    /\ last_event.key = "Escape"
    /\ input_actions = << ToggleSearch >>
    /\ ~state.search_active
    /\ state.search_query = ""

\* C13: a text, key, copy, cut or paste event handled by the focused widget
\* while the overlay is open yields exactly one action, which is
\* ToggleSearch, SearchNext, SearchPrev or Ignore and never a backend command
\* or a clipboard write: ToggleSearch only for a press of Escape or Cmd+F,
\* SearchNext or SearchPrev only for a press of F3 or of Enter with ctrl or
\* command, SearchPrev exactly when shift is held; a press of Escape always
\* toggles; a key release and every other event yield Ignore.
C13_OverlayCapturesKeyboard ==
    [][ (KeyboardStep /\ has_focus /\ state.search_active) =>
          /\ Len(input_actions') = 1
          /\ LET e == last_event'
                 a == input_actions'[1]
                 press == e.kind = "Key" /\ e.pressed
                 nav == press /\ (\/ e.key = "F3"
                                  \/ e.key = "Enter"
                                       /\ e.modifiers \cap {"ctrl", "command"} # {})
             IN  /\ a.type \in {"ToggleSearch", "SearchNext", "SearchPrev", "Ignore"}
                 /\ a.type = "ToggleSearch" =>
                       press /\ (e.key = "Escape"
                                 \/ (e.key = "F" /\ "command" \in e.modifiers))
                 /\ (press /\ e.key = "Escape") => a.type = "ToggleSearch"
                 /\ a.type = "SearchNext" => nav /\ "shift" \notin e.modifiers
                 /\ a.type = "SearchPrev" => nav /\ "shift" \in e.modifiers
                 /\ nav => a.type \in {"SearchNext", "SearchPrev"}
                 /\ ~press => a.type = "Ignore" ]_vars

C13_Witness ==
    /\ pc = "input"
    /\ has_focus
    /\ state.search_active
    /\ last_event.kind = "Text"
    /\ input_actions = << Ignore >>

\* C16: a text, key, copy, cut or paste event handled while the widget lacks
\* focus yields no action: the view state and the search flag of the backend
\* stay as they were and no call is made on the backend.
C16_UnfocusedKeyboardIgnored ==
    [][ (KeyboardStep /\ ~has_focus) =>
          /\ input_actions' = <<>>
          /\ state' = state
          /\ backend_search' = backend_search
          /\ backend_calls' = <<>> ]_vars

C16_Witness ==
    /\ pc = "input"
    /\ ~has_focus
    /\ last_event.kind = "Key"
    /\ last_event.key = "F"
    /\ last_event.pressed
    /\ "command" \in last_event.modifiers
    /\ input_actions = <<>>
    /\ ~state.search_active

\* the one action of the handled event is SearchNext or SearchPrev
NavigationHandled ==
    /\ pc = "input"
    /\ Len(input_actions) = 1
    /\ input_actions[1].type \in {"SearchNext", "SearchPrev"}

\* C18: applying SearchNext or SearchPrev first asks the backend whether
\* search is active; on the answer no it makes no further call (no
\* search_next, search_prev or scroll_to_point); on the answer yes it calls
\* search_next for SearchNext and search_prev for SearchPrev, and then
\* scroll_to_point with the returned point exactly when one was returned.
C18_NavigationGuarded ==
    NavigationHandled =>
        LET nav == IF input_actions[1].type = "SearchNext"
                   THEN "search_next" ELSE "search_prev"
            n == Len(backend_calls)
        IN  /\ n >= 1
            /\ backend_calls[1].call = "search_active"
            /\ IF ~backend_calls[1].reply THEN n = 1
               ELSE /\ n >= 2
                    /\ backend_calls[2].call = nav
                    /\ IF backend_calls[2].reply.found
                       THEN /\ n = 3
                            /\ backend_calls[3] =
                                 [call |-> "scroll_to_point",
                                  point |-> backend_calls[2].reply.point]
                       ELSE n = 2

C18_Witness ==
    /\ NavigationHandled
    /\ input_actions = << SearchPrev >>
    /\ Len(backend_calls) = 3
    /\ backend_calls[1] = [call |-> "search_active", reply |-> TRUE]
    /\ backend_calls[2].call = "search_prev"
    /\ backend_calls[3].call = "scroll_to_point"

\* ---- rendering -----------------------------------------------------------

\* the step is TerminalView::show
ShowStep == pc = "input" /\ pc' = "idle"

MoveStep ==
    /\ pc = "input"
    /\ pc' = "input"
    /\ last_event'.kind = "PointerMoved"

\* the grid point under the position of the handled event
EventPoint ==
    selection_point(last_event.pos.x - layout.rect_min.x,
                    last_event.pos.y - layout.rect_min.y,
                    content.display_offset)

\* C17 as stated: after every pointer-move event the stored grid position is
\* the point under the event, pointer within the bounds or not.
C17_EveryMoveUpdates ==
    (pc = "input" /\ last_event.kind = "PointerMoved") =>
        state.current_mouse_position_on_grid = EventPoint

\* C17: a pointer-move event handled while the pointer is within the widget
\* bounds stores the grid point under the event, dragging or not; one handled
\* while the pointer is outside yields no action and leaves the view state
\* as it was.
C17_MoveInsideUpdates ==
    [][ MoveStep =>
          IF layout.contains_pointer
          THEN state'.current_mouse_position_on_grid = EventPoint'
          ELSE state' = state /\ input_actions' = <<>> ]_vars

C17_Witness ==
    /\ MoveHandled
    /\ ~state.is_dragged
    /\ state.current_mouse_position_on_grid = EventPoint
    /\ EventPoint.column > 0
    /\ EventPoint.line > 0

\* ---- wheel without mouse reporting ---------------------------------------

\* the arrow-key sequence an alternate-screen application is sent per line
ArrowSequence(lines) == IF lines > 0 THEN <<ESC, 79, 66>> ELSE <<ESC, 79, 65>>

\* C19: a wheel event that yields a non-zero number of lines in a mode
\* without mouse reporting issues exactly one command: with ALT_SCREEN and
\* ALTERNATE_SCROLL both set, a Write of |lines| repetitions of ESC O B
\* (lines > 0) or ESC O A (lines < 0), 3 * |lines| bytes long; with either
\* flag missing, Scroll(lines).
C19_WheelArrowsOrScroll ==
    (WheelHandled /\ EventLines # 0 /\ ~MouseReporting) =>
        /\ Len(input_actions) = 1
        /\ input_actions[1].type = "BackendCall"
        /\ LET cmd == input_actions[1].cmd
           IN  IF {"ALT_SCREEN", "ALTERNATE_SCROLL"} \subseteq content.terminal_mode
               THEN /\ cmd.name = "Write"
                    /\ Len(cmd.bytes) = 3 * Abs(EventLines)
                    /\ \A i \in 1 .. Len(cmd.bytes) :
                         cmd.bytes[i] = ArrowSequence(EventLines)[((i - 1) % 3) + 1]
               ELSE cmd = Scroll(EventLines)

C19_Witness ==
    /\ WheelHandled
    /\ ~MouseReporting
    /\ EventLines = -2
    /\ input_actions = << BackendCall(Write(<<27, 79, 65, 27, 79, 65>>)) >>

\* ---- release of the primary button ---------------------------------------

\* a release of the primary button handled in a mode without mouse reporting
PrimaryReleaseHandled ==
    /\ ButtonHandled
    /\ last_event.button = "Primary"
    /\ ~last_event.pressed
    /\ ~MouseReporting

\* C20: a release of the primary button within the bounds, mouse reporting
\* off, yields for a double or triple click one SelectStart of the kind the
\* multiplicity gives, at the event's position relative to the widget
\* origin, and no link action; otherwise it yields ProcessLink(Open, the
\* stored grid position) exactly when the binding of the primary button
\* under the event's modifiers and the terminal mode is LinkOpen, and
\* nothing otherwise.
C20_ReleaseSelectsOrOpensLink ==
    PrimaryReleaseHandled =>
        IF layout.double_clicked \/ layout.triple_clicked
        THEN input_actions =
               << BackendCall(SelectStart(ClickKind,
                                          last_event.pos.x - layout.rect_min.x,
                                          last_event.pos.y - layout.rect_min.y)) >>
        ELSE IF get_action(bindings_layout, MousePrimary, last_event.modifiers,
                           content.terminal_mode).type = "LinkOpen"
        THEN input_actions =
               << BackendCall(ProcessLink("Open",
                                          state.current_mouse_position_on_grid)) >>
        ELSE input_actions = << Ignore >>

C20_Witness ==
    /\ PrimaryReleaseHandled
    /\ ~layout.double_clicked
    /\ ~layout.triple_clicked
    /\ last_event.modifiers = {"command"}
    /\ input_actions =
         << BackendCall(ProcessLink("Open", state.current_mouse_position_on_grid)) >>

\* ---- the order of the events of a frame ----------------------------------

\* the step is one pass of the event loop
EventStep == pc = "input" /\ pc' = "input"

\* the event handled last, as it arrived
Arrived ==
    IF last_event.kind = "MouseWheel"
    THEN [kind |-> "MouseWheel", unit |-> last_event.unit,
          delta_y |-> last_event.delta_y]
    ELSE last_event

\* C14: the k-th pass of the event loop handles the k-th event of the
\* frame's list, the list is never changed, and show runs only after the
\* last event; an event is classified with the overlay and drag state the
\* earlier events of the frame left behind: with the widget focused a text
\* event yields Ignore when the overlay is open at that point and the Write
\* of its text when it is closed, and a move within the bounds yields the
\* selection update exactly when a drag is in progress at that point.
C14_EventsInArrivalOrder ==
    [][ /\ EventStep =>
              /\ cursor' = cursor + 1
              /\ cursor' <= Len(events)
              /\ events' = events
              /\ Arrived' = events[cursor']
              /\ (last_event'.kind = "Text" /\ has_focus) =>
                    input_actions' =
                      << IF state.search_active THEN Ignore
                         ELSE BackendCall(Write(last_event'.text)) >>
              /\ (last_event'.kind = "PointerMoved" /\ layout.contains_pointer) =>
                    input_actions' =
                      IF state.is_dragged
                      THEN << BackendCall(SelectUpdate(
                                 last_event'.pos.x - layout.rect_min.x,
                                 last_event'.pos.y - layout.rect_min.y)) >>
                      ELSE <<>>
        /\ ShowStep => cursor = Len(events) ]_vars

C14_Witness ==
    /\ pc = "input"
    /\ has_focus
    /\ cursor = 2
    /\ events[1].kind = "Key" /\ events[1].key = "F"
    /\ events[2].kind = "Text"
    /\ last_event = events[2]
    /\ state.search_active
    /\ state.search_just_opened
    /\ input_actions = << Ignore >>

\* ---- paste without bracketed paste ---------------------------------------

\* the positions of text that survive: every byte but a "\n" right after "\r"
KeptPositions(text) ==
    SelectSeq([i \in 1 .. Len(text) |-> i],
              LAMBDA i : ~(text[i] = 10 /\ i > 1 /\ text[i - 1] = 13))

\* C21: a paste handled while BRACKETED_PASTE is not set issues one Write
\* whose bytes are the pasted bytes in order, without the "\n" of every
\* "\r\n" pair and with every other "\n" turned into "\r": the output holds
\* no "\n", a "\r\n" pair gives one "\r", every other byte, ESC and ETX
\* included, keeps its value and place.
C21_PlainPasteLineEndings ==
    (PasteHandled /\ "BRACKETED_PASTE" \notin content.terminal_mode) =>
        /\ Len(input_actions) = 1
        /\ input_actions[1].type = "BackendCall"
        /\ input_actions[1].cmd.name = "Write"
        /\ LET text == last_event.text
               bytes == input_actions[1].cmd.bytes
               kept == KeptPositions(text)
           IN  /\ Len(bytes) = Len(kept)
               /\ \A j \in 1 .. Len(kept) :
                    bytes[j] = IF text[kept[j]] = 10 THEN 13 ELSE text[kept[j]]
               /\ \A j \in 1 .. Len(bytes) : bytes[j] # 10

C21_Witness ==
    /\ PasteHandled
    /\ "BRACKETED_PASTE" \notin content.terminal_mode
    /\ last_event.text = <<13, 10, ESC>>
    /\ input_actions = << BackendCall(Write(<<13, ESC>>)) >>

\* ---- text events and key bindings ----------------------------------------

\* the step handles a keyboard event with focus held and the overlay closed
ClosedStep == KeyboardStep /\ has_focus /\ ~state.search_active

\* the binding of a key under given modifiers and the current terminal mode
KeyBinding(key, mods) ==
    get_action(bindings_layout, KeyCode(key), mods, content.terminal_mode)

\* the bytes a Char or Esc binding stands for
BindingBytes(action) == IF action.type = "Char" THEN <<action.c>> ELSE action.seq

\* the text of the handled event names a key bound to something but Ignore
TextIsBound(text) ==
    /\ from_name(text) # "None"
    /\ KeyBinding(from_name(text), modifiers).type # "Ignore"

\* a text event is dropped exactly when its key is bound, else written
TextForwarding ==
    (ClosedStep /\ last_event'.kind = "Text") =>
        input_actions' = << IF TextIsBound(last_event'.text) THEN Ignore
                           ELSE BackendCall(Write(last_event'.text)) >>

\* the step handles a key press whose binding is not Ignore
BoundPressStep ==
    /\ ClosedStep
    /\ last_event'.kind = "Key"
    /\ last_event'.pressed
    /\ KeyBinding(last_event'.key, last_event'.modifiers).type # "Ignore"

\* C22 as stated: a text event is dropped exactly when its key is bound and
\* written otherwise; every press of a bound key writes the bytes of its
\* binding.
C22_BindingHandlesSuppressedText ==
    [][ /\ TextForwarding
        /\ BoundPressStep =>
              input_actions' =
                << BackendCall(Write(BindingBytes(
                       KeyBinding(last_event'.key, last_event'.modifiers)))) >> ]_vars

\* C22: with focus held and the overlay closed, a text event yields Ignore
\* exactly when its text names a key whose binding under the frame's
\* modifiers and the terminal mode is not Ignore, and otherwise one Write of
\* the text; a press of a bound key writes the bytes of its binding when the
\* binding is Char or Esc and the press is not Cmd+F, toggles the overlay
\* when it is Cmd+F, and yields Ignore otherwise.
C22_TextSuppressedWhenBound ==
    [][ /\ TextForwarding
        /\ BoundPressStep =>
              LET e == last_event'
                  binding == KeyBinding(e.key, e.modifiers)
              IN  input_actions' =
                    << IF "command" \in e.modifiers /\ e.key = "F" THEN ToggleSearch
                       ELSE IF binding.type \in {"Char", "Esc"}
                       THEN BackendCall(Write(BindingBytes(binding)))
                       ELSE Ignore >> ]_vars

C22_Witness ==
    /\ pc = "input"
    /\ has_focus
    /\ ~state.search_active
    /\ last_event = [kind |-> "Text", text |-> <<97>>]
    /\ modifiers = {"command"}
    /\ input_actions = << Ignore >>

\* ---- the primitive list of a frame ---------------------------------------

\* show has run
Shown == pc = "idle" /\ painter # <<>>

\* the place of a primitive's kind within its cell
Rank(role) ==
    CASE role = "cell" -> 1
      [] role = "search" -> 2
      [] role = "link" -> 3
      [] role = "cursor" -> 4
      [] role = "glyph" -> 5

\* the place of a primitive's cell in the scan order of the grid
ScanIndex(shape) ==
    CHOOSE i \in 1 .. Len(screen.cells) : screen.cells[i].point = shape.point

\* the kinds of primitive the batch holds for a cell
RolesOf(batch, cell) ==
    { batch[i].role : i \in { j \in 2 .. Len(batch) : batch[j].point = cell.point } }

\* the background colour of a cell after the inverse / selection swap
ResolvedBackground(cell) ==
    get_color(IF "INVERSE" \in cell.flags \/ cell.point \in screen.selectable_range
              THEN cell.fg ELSE cell.bg)

\* C23: show hands the painter one batch per frame; its first element is
\* the background fill at the widget origin in the theme's background
\* colour; the others belong to cells of the grid and follow the scan order
\* of the grid, and within a cell the order background rect, search
\* highlight, hyperlink underline, cursor box, glyph, each at most once; a
\* wide-character continuation cell has none; any other cell has the
\* background rect exactly when its resolved background differs from the
\* global one, the highlight exactly when search is active and the cell is
\* in a match, the underline exactly when the cell and the pointer are in
\* the hovered link, the cursor box exactly when the cursor is on it, the
\* glyph exactly when its character is neither space nor tab.
C23_PrimitiveOrder ==
    Shown =>
        /\ Len(painter) = 1
        /\ LET batch == painter[1]
               n == Len(batch)
           IN  /\ n >= 1
               /\ batch[1].role = "background"
               /\ batch[1].fill = get_color("Background")
               /\ batch[1].x = layout.rect_min.x /\ batch[1].y = layout.rect_min.y
               /\ \A i \in 2 .. n :
                    /\ batch[i].role # "background"
                    /\ \E k \in 1 .. Len(screen.cells) :
                         screen.cells[k].point = batch[i].point
               /\ \A i \in 2 .. n : \A j \in (i + 1) .. n :
                    \/ ScanIndex(batch[i]) < ScanIndex(batch[j])
                    \/ /\ ScanIndex(batch[i]) = ScanIndex(batch[j])
                       /\ Rank(batch[i].role) < Rank(batch[j].role)
               /\ \A k \in 1 .. Len(screen.cells) :
                    LET cell == screen.cells[k]
                        roles == RolesOf(batch, cell)
                    IN  IF "WIDE_CHAR_SPACER" \in cell.flags THEN roles = {}
                        ELSE /\ "cell" \in roles <=>
                                  ResolvedBackground(cell) # get_color("Background")
                             /\ "search" \in roles <=>
                                  (screen.search_state.active
                                   /\ cell.point \in screen.search_state.matches)
                             /\ "link" \in roles <=>
                                  (/\ cell.point \in screen.hovered_hyperlink
                                   /\ state.current_mouse_position_on_grid
                                        \in screen.hovered_hyperlink)
                             /\ "cursor" \in roles <=> screen.cursor = cell.point
                             /\ "glyph" \in roles <=> cell.c \notin {32, 9}

C23_Witness ==
    /\ Shown
    /\ Len(screen.cells) = 2
    /\ "WIDE_CHAR_SPACER" \in screen.cells[2].flags
    /\ screen.cells[2].c = 120
    /\ Len(painter[1]) = 6
    /\ [i \in 1 .. 6 |-> painter[1][i].role]
         = <<"background", "cell", "search", "link", "cursor", "glyph">>

\* ---- the actions of a pointer move ---------------------------------------

\* the handled move issued a MouseReport(LeftMove)
LeftMoveIssued ==
    \E i \in DOMAIN input_actions :
        /\ input_actions[i].type = "BackendCall"
        /\ input_actions[i].cmd.name = "MouseReport"
        /\ input_actions[i].cmd.button = "LeftMove"

\* the handled move issued a ProcessLink(Hover)
HoverIssued ==
    \E i \in DOMAIN input_actions :
        /\ input_actions[i].type = "BackendCall"
        /\ input_actions[i].cmd.name = "ProcessLink"
        /\ input_actions[i].cmd.action = "Hover"

\* C24: a pointer-move event yields at most two actions and never both a
\* MouseReport(LeftMove) and a ProcessLink(Hover): the report is issued only
\* with no modifier held, the hover probe only with command held and alt
\* and shift not; when two actions are yielded the first is a SelectUpdate
\* and the second the hover probe.
C24_NoReportWithHover ==
    (pc = "input" /\ last_event.kind = "PointerMoved") =>
        /\ Len(input_actions) <= 2
        /\ ~(LeftMoveIssued /\ HoverIssued)
        /\ LeftMoveIssued => modifiers = {}
        /\ HoverIssued => ("command" \in modifiers /\ "alt" \notin modifiers
                           /\ "shift" \notin modifiers)
        /\ Len(input_actions) = 2 =>
              /\ input_actions[1].type = "BackendCall"
              /\ input_actions[1].cmd.name = "SelectUpdate"
              /\ input_actions[2] =
                   BackendCall(ProcessLink("Hover",
                                           state.current_mouse_position_on_grid))

C24_Witness ==
    /\ MoveHandled
    /\ state.is_dragged
    /\ "MOUSE_MOTION" \in content.terminal_mode
    /\ modifiers = {"command"}
    /\ Len(input_actions) = 2
    /\ HoverIssued

\* ---- the search flag of the backend --------------------------------------

\* the step called search_set_active on the backend
SetActiveCalled ==
    \E i \in DOMAIN backend_calls' : backend_calls'[i].call = "search_set_active"

\* C25: after every step the value last handed to search_set_active equals
\* search_active; a step changes search_active only by applying one
\* ToggleSearch, which calls search_set_active once, with the new value; no
\* other step calls search_set_active.
C25_SearchFlagMirrored ==
    [][ /\ backend_search' = state'.search_active
        /\ (state'.search_active # state.search_active) =>
              /\ input_actions' = << ToggleSearch >>
              /\ backend_calls' = << [call |-> "search_set_active",
                                      value |-> state'.search_active] >>
        /\ SetActiveCalled =>
              /\ input_actions' = << ToggleSearch >>
              /\ state'.search_active # state.search_active ]_vars

C25_Witness ==
    /\ pc = "input"
    /\ input_actions = << ToggleSearch >>
    /\ ~state.search_active
    /\ ~backend_search
    /\ backend_calls = << [call |-> "search_set_active", value |-> FALSE] >>

\* ---- the sign conventions of the wheel units -----------------------------

\* the direction of the one action of the handled wheel event: 1 for
\* ScrollDown, ESC O B or a positive Scroll, -1 for the opposite, 0 for none
ActionDirection ==
    LET a == input_actions[1]
    IN  IF a.type # "BackendCall" THEN 0
        ELSE CASE a.cmd.name = "Scroll" ->
                    (IF a.cmd.lines > 0 THEN 1 ELSE IF a.cmd.lines < 0 THEN -1 ELSE 0)
               [] a.cmd.name = "MouseReport" ->
                    (IF a.cmd.button = "ScrollDown" THEN 1 ELSE -1)
               [] a.cmd.name = "Write" ->
                    (IF a.cmd.bytes[3] = 66 THEN 1 ELSE -1)

\* C26: a handled wheel event yields one action; for a Line event its
\* direction has the sign of delta.y (down for delta.y > 0, up for
\* delta.y < 0, none for 0); for a Point event it is never down-or-positive
\* when delta.y > 0 and never up-or-negative when delta.y < 0; a Page event
\* yields Ignore and leaves the accumulator as it was.
C26_WheelSignConventions ==
    WheelHandled =>
        /\ Len(input_actions) = 1
        /\ LET dy == last_event.delta_y
           IN  CASE last_event.unit = "Line" ->
                      /\ dy > 0 => ActionDirection = 1
                      /\ dy < 0 => ActionDirection = -1
                      /\ dy = 0 => input_actions = << Ignore >>
                      /\ state.scroll_pixels = last_event.before_pixels
                 [] last_event.unit = "Point" ->
                      /\ dy > 0 => ActionDirection <= 0
                      /\ dy < 0 => ActionDirection >= 0
                 [] last_event.unit = "Page" ->
                      /\ input_actions = << Ignore >>
                      /\ state.scroll_pixels = last_event.before_pixels

C26_Witness ==
    /\ WheelHandled
    /\ last_event.unit = "Point"
    /\ last_event.delta_y > 0
    /\ last_event.before_pixels > 0
    /\ ActionDirection = -1

====
